---- MODULE Spec2Model ----
(***************************************************************************)
(* Model of orbit_pyqtgraph: the orbital-math core (orb_math.py) and the   *)
(* OrbitPlot widget's propagation state (orbit.py).                        *)
(*                                                                         *)
(* Numbers.  The code works in IEEE doubles; the model works in fixed      *)
(* point.  Angles, eccentricities and the entries of rotation matrices are *)
(* integers in units of 1/SCALE (milliradians, thousandths); lengths are   *)
(* integer km, times integer seconds, element angles integer degrees.      *)
(* Every arithmetic step of the code is kept, in the code's order, with    *)
(* each quotient rounded to the nearest unit.  A NaN produced by numpy     *)
(* (the square root of a negative number) is the value NaN.                *)
(***************************************************************************)
EXTENDS Integers, Sequences, FiniteSets, TLC

VARIABLES
    kep,      \* the running kepler_E call: its arguments, E, dE, iteration, pc
    fn,       \* a call of a pure function of orb_math: arguments, result, log
    heap,     \* the caller's Python lists, by object id
    plot,     \* the OrbitPlot instance's fields
    call,     \* the last OrbitPlot method call and how it ended
    hist,     \* history kept for the statements: what the OrbitPlot was built from,
              \* the key of its previous propagation request, the last
              \* propagate_orbit call that returned, and the animation argument
              \* of the last _3d or _2d call
    tle       \* a call of tle_to_kepler6: the two lines and the outcome

vars == <<kep, fn, heap, plot, call, hist, tle>>

None == "None"

\* a part of the state that the specification at hand does not use
Idle == [pc |-> "idle"]

----------------------------------------------------------------------------
(* Fixed-point arithmetic *)

SCALE == 1000

\* np.pi in units of 1/SCALE
PI == 3142

HALF_PI == PI \div 2

TWO_PI == 2 * PI

\* the value numpy gives for sqrt of a negative number, and all that follows from it
NaN == 0 - 999999999

Abs(x) == IF x < 0 THEN -x ELSE x

\* a / b for b > 0, rounded to the nearest integer
RDiv(a, b) == (2 * a + b) \div (2 * b)

\* a / b for any b # 0, rounded to the nearest integer
SDiv(a, b) == IF b > 0 THEN RDiv(a, b) ELSE RDiv(-a, -b)

\* the largest r' >= r with r' * r' <= n, found one binary digit at a time from b down
RECURSIVE ISqrtBit(_, _, _)
ISqrtBit(n, r, b) ==
    IF b = 0 THEN r
    ELSE LET c == r + b
         IN  IF c <= 46340 /\ c * c <= n THEN ISqrtBit(n, c, b \div 2)
             ELSE ISqrtBit(n, r, b \div 2)

\* floor of the square root of n, 0 <= n < 2^31
ISqrt(n) == ISqrtBit(n, 0, 32768)

\* (x + pi) % (2*pi) - pi, Python's % (result has the sign of the divisor)
WrapPi(x) == ((x + PI) % TWO_PI) - PI

\* sine of y for |y| <= pi/2, by its Taylor polynomial of degree 7
SinCore(y) ==
    LET y2 == RDiv(y * y, SCALE)
        t3 == SCALE - RDiv(y2, 42)
        t2 == SCALE - RDiv(y2 * t3, 20 * SCALE)
        t1 == SCALE - RDiv(y2 * t2, 6 * SCALE)
    IN  RDiv(y * t1, SCALE)

\* np.sin
Sin(x) ==
    LET y == WrapPi(x)
    IN  IF y > HALF_PI THEN SinCore(PI - y)
        ELSE IF y < -HALF_PI THEN SinCore(-PI - y)
        ELSE SinCore(y)

\* cosine of y for |y| <= pi/2, by its Taylor polynomial of degree 6
CosCore(y) ==
    LET y2 == RDiv(y * y, SCALE)
        t3 == SCALE - RDiv(y2, 30)
        t2 == SCALE - RDiv(y2 * t3, 12 * SCALE)
    IN  SCALE - RDiv(y2 * t2, 2 * SCALE)

\* np.cos
Cos(x) ==
    LET y == WrapPi(x)
    IN  IF y > HALF_PI THEN -CosCore(PI - y)
        ELSE IF y < -HALF_PI THEN -CosCore(-PI - y)
        ELSE CosCore(y)

\* arctan of z/SCALE for 0 <= z <= SCALE
AtanCore(z) ==
    RDiv(785 * z, SCALE)
  + RDiv(RDiv(z * (SCALE - z), SCALE) * (245 + RDiv(66 * z, SCALE)), SCALE)

\* np.arctan2(y, x)
Atan2(y, x) ==
    LET ay == Abs(y)
        ax == Abs(x)
        a  == IF ax = 0 /\ ay = 0 THEN 0
              ELSE IF ay <= ax THEN AtanCore(RDiv(ay * SCALE, ax))
              ELSE HALF_PI - AtanCore(RDiv(ax * SCALE, ay))
        q  == IF x >= 0 THEN a ELSE PI - a
    IN  IF y < 0 THEN -q ELSE q

\* np.deg2rad
deg2rad(d) == SDiv(d * PI, 180)

----------------------------------------------------------------------------
(* orb_math.py: physical constants *)

\* km^3 / s^2
MU_EARTH == 398600

----------------------------------------------------------------------------
(* orb_math.kepler_E *)

\* kepler_E's default arguments.  tol = 1e-10 is far above the rounding noise of a
\* double and far below the model's resolution: a step counts as below tol when it
\* is within one unit of the fixed-point grid
DefaultTol == 2

DefaultMaxiter == 100

\* the eccentricity argument: one scalar for the batch, or one value per element
ScalarE(v) == [shape |-> "scalar", val |-> v]

ArrayE(vs) == [shape |-> "array", val |-> vs]

EAt(e, k) == IF e.shape = "scalar" THEN e.val ELSE e.val[k]

\* M = (M + np.pi) % (2*np.pi) - np.pi
KeplerNormalize(M) == [k \in 1..Len(M) |-> WrapPi(M[k])]

\* every element set to pi as soon as one eccentricity is above 0.8
KeplerGuessAny(M, e) ==
    [k \in 1..Len(M) |-> IF \E j \in 1..Len(M) : Abs(EAt(e, j)) > 800 THEN PI ELSE M[k]]

\* mask = np.abs(e) > 0.8 ; if np.any(mask): E[mask] = np.pi
KeplerGuess(M, e) ==
    [k \in 1..Len(M) |-> IF Abs(EAt(e, k)) > 800 THEN PI ELSE M[k]]

\* f = E - e*sin(E) - M ; fp = 1 - e*cos(E) ; dE = -f / fp
NewtonDelta(E, M, e) ==
    [k \in 1..Len(E) |->
        LET f  == E[k] - RDiv(EAt(e, k) * Sin(E[k]), SCALE) - M[k]
            fp == SCALE - RDiv(EAt(e, k) * Cos(E[k]), SCALE)
        IN  SDiv(-f * SCALE, fp)]

\* E += dE
NewtonApply(E, dE) == [k \in 1..Len(E) |-> E[k] + dE[k]]

AllBelowMut(dE, tol) == \E k \in 1..Len(dE) : Abs(dE[k]) < tol

\* np.all(np.abs(dE) < tol)
AllBelow(dE, tol) == \A k \in 1..Len(dE) : Abs(dE[k]) < tol

\* for _ in range(maxiter): ... break
RECURSIVE KeplerLoop(_, _, _, _, _)
KeplerLoop(E, M, e, tol, left) ==
    IF left <= 0 THEN E
    ELSE LET dE == NewtonDelta(E, M, e)
             E2 == NewtonApply(E, dE)
         IN  IF AllBelow(dE, tol) THEN E2
             ELSE KeplerLoop(E2, M, e, tol, left - 1)

kepler_E(M, e, tol, maxiter) ==
    LET Mn == KeplerNormalize(M)
    IN  KeplerLoop(KeplerGuess(Mn, e), Mn, e, tol, maxiter)

----------------------------------------------------------------------------
(* orb_math.oe_to_rv and orb_math.propagate_orbit *)

\* what a call hands back: the exception it raised (None when it returned) and its value
Returned(v) == [exc |-> None, val |-> v]

Raised(x) == [exc |-> x, val |-> <<>>]

\* no call has been made
NoCall == [exc |-> "NoCall", val |-> <<>>]

\* n = np.sqrt(MU_EARTH / a**3) for a > 0, in 1e-6 rad/s, evaluated as sqrt(MU/a)/a
MeanMotion(a) == RDiv(ISqrt((MU_EARTH * 2500) \div a) * 20000, a)

Mat3(r1, r2, r3) == <<r1, r2, r3>>

\* A @ B for 3x3 matrices with entries in 1/SCALE
MatMul(A, B) ==
    [i \in 1..3 |-> [j \in 1..3 |->
        RDiv(A[i][1] * B[1][j] + A[i][2] * B[2][j] + A[i][3] * B[3][j], SCALE)]]

\* A @ v for a 3x3 matrix with entries in 1/SCALE and a 3-vector
MatVec(A, v) ==
    [i \in 1..3 |-> RDiv(A[i][1] * v[1] + A[i][2] * v[2] + A[i][3] * v[3], SCALE)]

Rz(t) == Mat3(<<Cos(t), -Sin(t), 0>>, <<Sin(t), Cos(t), 0>>, <<0, 0, SCALE>>)

Rx(t) == Mat3(<<SCALE, 0, 0>>, <<0, Cos(t), -Sin(t)>>, <<0, Sin(t), Cos(t)>>)

\* oe_to_rv: Q_pX = Rz_raan @ Rx_i @ Rz_argp
OeRotation(i_deg, raan_deg, argp_deg) ==
    MatMul(MatMul(Rz(deg2rad(raan_deg)), Rx(deg2rad(i_deg))), Rz(deg2rad(argp_deg)))

\* oe_to_rv: the perifocal position for eccentric anomaly E
OePerifocal(a, e, E) ==
    LET den  == SCALE - RDiv(e * Cos(E), SCALE)
        cosf == SDiv((Cos(E) - e) * SCALE, den)
        sinf == SDiv(ISqrt(SCALE * SCALE - e * e) * Sin(E), den)
        f    == Atan2(sinf, cosf)
        r    == RDiv(a * den, SCALE)
    IN  <<RDiv(r * Cos(f), SCALE), RDiv(r * Sin(f), SCALE), 0>>

\* oe_to_rv: the perifocal velocity (m/s) for eccentric anomaly E; h = sqrt(MU*a*(1-e^2))
OeVelocity(a, e, E) ==
    LET den  == SCALE - RDiv(e * Cos(E), SCALE)
        cosf == SDiv((Cos(E) - e) * SCALE, den)
        sinf == SDiv(ISqrt(SCALE * SCALE - e * e) * Sin(E), den)
        f    == Atan2(sinf, cosf)
        p    == RDiv(a * RDiv(SCALE * SCALE - e * e, SCALE), SCALE)
        muh  == IF p > 0 THEN ISqrt((MU_EARTH * 2500) \div p) * 20 ELSE NaN
    IN  IF muh = NaN THEN <<NaN, NaN, NaN>>
        ELSE <<RDiv(-muh * Sin(f), SCALE), RDiv(muh * (e + Cos(f)), SCALE), 0>>

NaN3 == <<NaN, NaN, NaN>>

\* kepler_E called with a scalar M: line 33 leaves a numpy float64 in M and E, and
\* E[mask] = np.pi (line 38) is an item assignment, which a float64 does not support
KeplerScalarGuessRaises(e) == Abs(e) > 800

oe_to_rv(a, e, i_deg, raan_deg, argp_deg, M_deg) ==
    IF a = 0 THEN Raised("ZeroDivisionError")
    ELSE IF KeplerScalarGuessRaises(e) THEN Raised("TypeError")
    ELSE LET M == deg2rad(M_deg)
             E == kepler_E(<<M>>, ScalarE(e), DefaultTol, DefaultMaxiter)[1]
             Q == OeRotation(i_deg, raan_deg, argp_deg)
             v == OeVelocity(a, e, E)
         IN  Returned([r |-> MatVec(Q, OePerifocal(a, e, E)),
                       v |-> IF v = NaN3 THEN NaN3 ELSE MatVec(Q, v)])

\* propagate_orbit lines 99-103: M = M0 + n*(times - M0_epoch_time), reduced to [-pi, pi]
PropMeanAnomaly(M0_deg, n, times, M0_epoch_time) ==
    [k \in 1..Len(times) |->
        WrapPi(deg2rad(M0_deg) + RDiv(n * (times[k] - M0_epoch_time), SCALE))]

\* perifocal positions with the radius taken as a * cos(E)
PropPerifocalCosRadius(a, e, E) ==
    [k \in 1..Len(E) |->
        LET den  == SCALE - RDiv(e * Cos(E[k]), SCALE)
            cosf == SDiv((Cos(E[k]) - e) * SCALE, den)
            sinf == SDiv(ISqrt(SCALE * SCALE - e * e) * Sin(E[k]), den)
            f    == Atan2(sinf, cosf)
            r    == RDiv(a * Cos(E[k]), SCALE)
        IN  <<RDiv(r * Cos(f), SCALE), RDiv(r * Sin(f), SCALE), 0>>]

\* propagate_orbit lines 107-115: one perifocal position per eccentric anomaly
PropPerifocal(a, e, E) ==
    [k \in 1..Len(E) |->
        LET den  == SCALE - RDiv(e * Cos(E[k]), SCALE)
            cosf == SDiv((Cos(E[k]) - e) * SCALE, den)
            sinf == SDiv(ISqrt(SCALE * SCALE - e * e) * Sin(E[k]), den)
            f    == Atan2(sinf, cosf)
            r    == RDiv(a * den, SCALE)
        IN  <<RDiv(r * Cos(f), SCALE), RDiv(r * Sin(f), SCALE), 0>>]

\* propagate_orbit lines 117-123
PropRotation(i_deg, raan_deg, argp_deg) ==
    MatMul(MatMul(Rz(deg2rad(raan_deg)), Rx(deg2rad(i_deg))), Rz(deg2rad(argp_deg)))

\* every row computed from the first column of r_pf
PropRotateFirstOnly(Q, r_pf) == [k \in 1..Len(r_pf) |-> MatVec(Q, r_pf[1])]

\* propagate_orbit line 124: (Q_pX @ r_pf).T
PropRotateAll(Q, r_pf) == [k \in 1..Len(r_pf) |-> MatVec(Q, r_pf[k])]

\* the exception propagate_orbit raises on these elements (None when it returns): the
\* unpacking of line 94 takes exactly six values, and MU_EARTH / (a**3) of line 98
\* divides Python floats
PropagateRaises(elems) ==
    IF Len(elems) # 6 THEN "ValueError"
    ELSE IF elems[1] = 0 THEN "ZeroDivisionError"
    ELSE None

propagate_orbit(elems, times_s, M0_epoch_time) ==
    IF PropagateRaises(elems) # None THEN Raised(PropagateRaises(elems))
    ELSE LET a == elems[1]
             e == elems[2]
         IN  IF a < 0 \/ e * e > SCALE * SCALE
             THEN Returned([k \in 1..Len(times_s) |-> NaN3])
             ELSE LET M == PropMeanAnomaly(elems[6], MeanMotion(a), times_s, M0_epoch_time)
                      E == kepler_E(M, ScalarE(e), DefaultTol, DefaultMaxiter)
                      Q == PropRotation(elems[3], elems[4], elems[5])
                  IN  Returned(PropRotateAll(Q, PropPerifocal(a, e, E)))

----------------------------------------------------------------------------
(* Element lists and time arrays the calls are made with.  An element list is
   [a_km, e (1/SCALE), i_deg, raan_deg, argp_deg, M0_deg], with an epoch_time_s as a
   seventh entry where the caller keeps one. *)

\* examples/3d.py
ElemsLEO == <<6787, 1, 45, 30, 60, 120>>

\* examples/2d.py (e = 0.0001 is 0 on the model's grid)
ElemsGEO == <<42164, 0, 0, 0, 0, 45>>

\* a valid eccentric orbit
ElemsEcc == <<26560, 700, 63, 0, 270, 0>>

\* a valid orbit with e > 0.8
ElemsHighE == <<26560, 900, 63, 0, 270, 0>>

\* a circular, inclined orbit
ElemsCirc == <<7000, 0, 98, 40, 0, 10>>

\* element sets outside the Data Model's invariant a_km > 0, 0 <= e < 1
ElemsNegE == <<6787, -500, 45, 30, 60, 120>>

ElemsBigE == <<6787, 1500, 45, 30, 60, 120>>

ElemsNegA == <<-6787, 1, 45, 30, 60, 120>>

ElemsZeroA == <<0, 1, 45, 30, 60, 120>>

\* examples/3d.py as written: the six elements and epoch_time_s
ElemsLEO7 == Append(ElemsLEO, 0)

ElementLists ==
    {ElemsLEO, ElemsGEO, ElemsCirc, ElemsEcc, ElemsHighE, ElemsNegE, ElemsBigE, ElemsNegA,
     ElemsZeroA, ElemsLEO7}

\* the Data Model's invariant on an Element Set
ValidElements(elems) ==
    /\ Len(elems) \in {6, 7}
    /\ elems[1] > 0
    /\ elems[2] >= 0 /\ elems[2] < SCALE

\* most samples in a time array handed to propagate_orbit
MaxTimes == 2

\* time offsets (s) the arrays are drawn from
TimeOffsets == {0, 600, 5000}

TimeArrays == UNION {[1..n -> TimeOffsets] : n \in 0..MaxTimes}

----------------------------------------------------------------------------
(* Calls of the pure functions by a caller that owns the argument objects *)

\* a call that wrote the wrapped mean anomaly back into the caller's list
PropagateStoresInPlace(h) ==
    IF Len(h.L) = 6 THEN [h EXCEPT !.L[6] = WrapPi(deg2rad(h.L[6]))] ELSE h

\* the caller's objects after propagate_orbit(h.L, h.T): lines 94-125 unpack elems,
\* copy times_s (np.array) and assign only to locals
PropagateStores(h) == h

\* the caller's objects after oe_to_rv: its arguments are scalars
OeToRvStores(h) == h

InitMath ==
    /\ kep = Idle /\ plot = Idle /\ call = Idle /\ hist = Idle /\ tle = Idle
    /\ \E L \in ElementLists : \E T \in TimeArrays : heap = [L |-> L, T |-> T]
    /\ fn = [pc |-> "args", op |-> None, ret |-> NoCall, first |-> NoCall,
             before |-> [heap |-> heap, plot |-> plot]]

\* the caller builds new arguments
MathSetArgs ==
    /\ fn.pc = "returned"
    /\ \E L \in ElementLists : \E T \in TimeArrays : heap' = [L |-> L, T |-> T]
    /\ fn' = [pc |-> "args", op |-> None, ret |-> NoCall, first |-> NoCall,
              before |-> [heap |-> heap', plot |-> plot]]
    /\ UNCHANGED <<kep, plot, call, hist, tle>>

\* r = propagate_orbit(L, T)
CallPropagate ==
    /\ fn.pc \in {"args", "returned"}
    /\ LET ret == propagate_orbit(heap.L, heap.T, 0)
       IN  fn' = [pc |-> "returned", op |-> "propagate_orbit", ret |-> ret,
                  first |-> IF fn.first = NoCall THEN ret ELSE fn.first,
                  before |-> [heap |-> heap, plot |-> plot]]
    /\ heap' = PropagateStores(heap)
    /\ UNCHANGED <<kep, plot, call, hist, tle>>

\* r, v = oe_to_rv(*L) for a six-entry list
CallOeToRv ==
    /\ fn.pc \in {"args", "returned"}
    /\ Len(heap.L) = 6
    /\ fn' = [fn EXCEPT !.pc = "returned", !.op = "oe_to_rv",
                         !.ret = oe_to_rv(heap.L[1], heap.L[2], heap.L[3],
                                          heap.L[4], heap.L[5], heap.L[6]),
                         !.before = [heap |-> heap, plot |-> plot]]
    /\ heap' = OeToRvStores(heap)
    /\ UNCHANGED <<kep, plot, call, hist, tle>>

NextMath == MathSetArgs \/ CallPropagate \/ CallOeToRv

SpecMath == InitMath /\ [][NextMath]_vars

\* s with its entries j and k exchanged
Swap(s, j, k) ==
    [i \in 1..Len(s) |-> IF i = j THEN s[k] ELSE IF i = k THEN s[j] ELSE s[i]]

(* C6: propagate_orbit is pure and deterministic.  When a call has returned, the
   caller's element list and time array and the OrbitPlot fields are what they were
   before the call, and the result equals the result of the first call made with
   these arguments, whatever calls were made in between. *)
C6_PropagatePure ==
    (fn.pc = "returned" /\ fn.op = "propagate_orbit") =>
        /\ heap = fn.before.heap
        /\ plot = fn.before.plot
        /\ fn.ret = fn.first

\* a call on a six-entry list and a non-empty time array has returned positions
C6_Witness ==
    /\ fn.pc = "returned" /\ fn.op = "propagate_orbit"
    /\ heap.L = ElemsLEO /\ Len(heap.T) = MaxTimes
    /\ fn.ret.exc = None /\ Len(fn.ret.val) = MaxTimes

(* C8: propagate_orbit returns one position per time offset, in input order: the
   result has as many rows as the time array has entries (none for an empty array),
   and exchanging two entries of the time array exchanges the same two rows of the
   result and changes no other row, whatever the order of the times. *)
C8_OnePositionPerTime ==
    (fn.pc = "returned" /\ fn.op = "propagate_orbit" /\ fn.ret.exc = None) =>
        /\ Len(fn.ret.val) = Len(heap.T)
        /\ \A j \in 1..Len(heap.T) : \A k \in j..Len(heap.T) :
              propagate_orbit(heap.L, Swap(heap.T, j, k), 0)
                = Returned(Swap(fn.ret.val, j, k))

\* positions returned for a time array that is not in increasing order
C8_Witness ==
    /\ fn.pc = "returned" /\ fn.op = "propagate_orbit" /\ fn.ret.exc = None
    /\ ValidElements(heap.L)
    /\ Len(heap.T) = MaxTimes /\ heap.T[1] > heap.T[MaxTimes]
    /\ fn.ret.val[1] # fn.ret.val[MaxTimes]

(* C2: an element set with a_km <= 0 or e outside [0,1) is rejected with an error
   by the core: no call of oe_to_rv on such a set, and no call of propagate_orbit on
   such a set and a non-empty time array, returns a value. *)
C2_InvalidRejected ==
    (/\ fn.pc = "returned"
     /\ ~ValidElements(heap.L)
     /\ (fn.op = "oe_to_rv" \/ Len(heap.T) > 0)) => fn.ret.exc # None

(* C10: for every Element Set (a_km > 0, 0 <= e < 1), oe_to_rv returns, and the
   position it returns for (a, e, i, raan, argp, M0_deg) is the one row
   propagate_orbit returns for the same elements and the time array [0]. *)
C10_ZeroOffsetAgrees ==
    (fn.pc = "returned" /\ fn.op = "oe_to_rv" /\ ValidElements(heap.L)) =>
        /\ fn.ret.exc = None
        /\ propagate_orbit(heap.L, <<0>>, 0) = Returned(<<fn.ret.val.r>>)

----------------------------------------------------------------------------
(* orb_math.py: eci_to_ecef and ecef_to_latlon.  An argument that numpy takes in
   more than one shape is a record: a position argument is one 3-vector
   (shape "vec") or an N x 3 array (shape "rows"), a time argument is a scalar or
   a one-dimensional array.  Angles are in thousandths of a radian, latitude and
   longitude in hundredths of a degree. *)

\* OMEGA_EARTH = 7.2921150e-5 rad/s, in units of 1e-8 rad/s.
OMEGA_EARTH == 7292

OMEGA_UNIT == 100000

R_EARTH_KM == 6371

DEG_UNIT == 100

Vec(v) == [shape |-> "vec", val |-> v]

Rows(s) == [shape |-> "rows", val |-> s]

ScalarT(t) == [shape |-> "scalar", val |-> t]

ArrayT(s) == [shape |-> "array", val |-> s]

IsNaN3(v) == v[1] = NaN \/ v[2] = NaN \/ v[3] = NaN

\* r = np.array(r_eci); a 1-d input gets a leading axis.
EciRows(r_eci) == IF r_eci.shape = "vec" THEN <<r_eci.val>> ELSE r_eci.val

\* theta = gst0 + OMEGA_EARTH * np.array(t_sec, dtype=float)
EciAngle(t, gst0) == gst0 + RDiv(OMEGA_EARTH * t, OMEGA_UNIT)

\* A theta of size 1 is repeated N times; a longer one is indexed per row.
EciThetaShared(t_sec, gst0, N) ==
    LET th == IF t_sec.shape = "scalar" THEN <<EciAngle(t_sec.val, gst0)>>
              ELSE [k \in 1..Len(t_sec.val) |-> EciAngle(t_sec.val[k], gst0)]
    IN  IF Len(th) = 0 THEN th ELSE [k \in 1..N |-> th[1]]

EciTheta(t_sec, gst0, N) ==
    LET th == IF t_sec.shape = "scalar" THEN <<EciAngle(t_sec.val, gst0)>>
              ELSE [k \in 1..Len(t_sec.val) |-> EciAngle(t_sec.val[k], gst0)]
    IN  IF Len(th) = 1 THEN [k \in 1..N |-> th[1]] ELSE th

\* Rz = [[ct, st, 0], [-st, ct, 0], [0, 0, 1]];  out[idx] = Rz @ r[idx]
EciRotate(theta, v) ==
    IF IsNaN3(v) THEN NaN3
    ELSE LET ct == Cos(theta)
             st == Sin(theta)
         IN  <<RDiv(ct * v[1] + st * v[2], SCALE),
               RDiv(ct * v[2] - st * v[1], SCALE),
               RDiv(SCALE * v[3], SCALE)>>

\* return out[0] if scalar else out
EciReturnRows(r_eci, out) == Rows(out)

EciReturn(r_eci, out) == IF r_eci.shape = "vec" THEN Vec(out[1]) ELSE Rows(out)

eci_to_ecef(r_eci, t_sec, gst0) ==
    LET r  == EciRows(r_eci)
        N  == Len(r)
        th == EciTheta(t_sec, gst0, N)
    IN  IF Len(th) < N THEN Raised("IndexError")
        ELSE Returned(EciReturn(r_eci, [k \in 1..N |-> EciRotate(th[k], r[k])]))

\* np.linalg.norm and np.hypot, on components scaled down so that the squares fit.
NormScale(v) == ((Abs(v[1]) + Abs(v[2]) + Abs(v[3])) \div 20000) + 1

Norm3(v) ==
    LET s == NormScale(v)
        x == RDiv(v[1], s)
        y == RDiv(v[2], s)
        z == RDiv(v[3], s)
    IN  s * ISqrt(x * x + y * y + z * z)

Hypot(x, y) == Norm3(<<x, y, 0>>)

rad2deg(r) == RDiv(r * 180 * DEG_UNIT, PI)

\* lon = arctan2(y, x); lat = arctan2(z, hypot(x, y)); alt = |r| - 6371.0
LatLonOf(v) ==
    IF IsNaN3(v) THEN [lat |-> NaN, lon |-> NaN, alt |-> NaN]
    ELSE [lat |-> rad2deg(Atan2(v[3], Hypot(v[1], v[2]))),
          lon |-> rad2deg(Atan2(v[2], v[1])),
          alt |-> Norm3(v) - R_EARTH_KM]

\* The three arrays returned; for a single 3-vector the code returns the three
\* element-0 scalars, kept here as arrays of one with the shape noted.
LatLonPack(r, s) ==
    [lat |-> [k \in 1..Len(s) |-> s[k].lat],
     lon |-> [k \in 1..Len(s) |-> s[k].lon],
     alt |-> [k \in 1..Len(s) |-> s[k].alt],
     shape |-> r.shape]

ecef_to_latlon(r_ecef) ==
    LET r == EciRows(r_ecef)
    IN  LatLonPack(r_ecef, [k \in 1..Len(r) |-> LatLonOf(r[k])])

\* lon = ((lon + 180) % 360) - 180, elementwise; NaN stays NaN
NormalizeLon(lon) ==
    IF lon = NaN THEN NaN
    ELSE ((lon + 180 * DEG_UNIT) % (360 * DEG_UNIT)) - 180 * DEG_UNIT

\* What _2d computes before it plots: _prepare_propagation's propagate_orbit and
\* eci_to_ecef (gst0 left at its default 0.0), then ecef_to_latlon; the longitudes
\* go to the plot items as returned.
GroundTrack2d(elems, times) ==
    LET p == propagate_orbit(elems, times, 0)
    IN  IF p.exc # None THEN p
        ELSE LET f == eci_to_ecef(Rows(p.val), ArrayT(times), 0)
             IN  IF f.exc # None THEN f
                 ELSE Returned(ecef_to_latlon(f.val))

\* What update_live computes before it plots: the same three calls on t_rel with
\* gst0 = gmst_rad(epoch), then the longitude normalisation.
GroundTrackLive(elems, t_rel, gst0) ==
    LET p == propagate_orbit(elems, t_rel, 0)
    IN  IF p.exc # None THEN p
        ELSE LET f == eci_to_ecef(Rows(p.val), ArrayT(t_rel), gst0)
             IN  IF f.exc # None THEN f
                 ELSE LET g == ecef_to_latlon(f.val)
                      IN  Returned([g EXCEPT !.lon = [k \in 1..Len(g.lon) |->
                                                        NormalizeLon(g.lon[k])]])

----------------------------------------------------------------------------
(* Calls of eci_to_ecef and ecef_to_latlon, alone and in the two ground-track
   pipelines.  A state holds the arguments of one call (heap) and, once the call
   has run, what came back (fn). *)

MaxRows == 2

FrameVectors ==
    {<<7000, 0, 0>>, <<-7000, 0, 0>>, <<0, 0, 7000>>, <<0, 0, -7000>>,
     <<-5000, -3000, 4000>>, <<0, 42164, 0>>, <<0, 0, 0>>}

FrameRowVectors == {<<7000, 0, 0>>, <<-5000, -3000, 4000>>, <<0, 42164, 0>>}

FrameOffsets == {0, 3600, -21600}

PositionArgs ==
    {Vec(v) : v \in FrameVectors}
        \cup {Rows(s) : s \in UNION {[1..n -> FrameRowVectors] : n \in 0..MaxRows}}

TimeArgs ==
    {ScalarT(t) : t \in FrameOffsets}
        \cup {ArrayT(s) : s \in UNION {[1..n -> FrameOffsets] : n \in 0..MaxRows}}

Gst0Args == {0, 500}

TrackElementLists == {ElemsLEO, ElemsGEO, ElemsEcc, ElemsBigE, ElemsNegA}

InitFrame ==
    /\ \/ \E r \in PositionArgs, t \in TimeArgs, g \in Gst0Args :
              heap = [kind |-> "positions", R |-> r, t |-> t, g |-> g,
                      L |-> <<>>, T |-> <<>>]
       \/ \E l \in TrackElementLists, ts \in TimeArrays, g \in Gst0Args :
              heap = [kind |-> "elements", R |-> Rows(<<>>), t |-> ScalarT(0), g |-> g,
                      L |-> l, T |-> ts]
    /\ fn = [pc |-> "args", op |-> None, ret |-> NoCall]
    /\ kep = Idle /\ plot = Idle /\ call = Idle /\ hist = Idle /\ tle = Idle

CallEciToEcef ==
    /\ fn.pc = "args" /\ heap.kind = "positions"
    /\ fn' = [pc |-> "returned", op |-> "eci_to_ecef",
              ret |-> eci_to_ecef(heap.R, heap.t, heap.g)]
    /\ UNCHANGED <<kep, heap, plot, call, hist, tle>>

CallEcefToLatlon ==
    /\ fn.pc = "args" /\ heap.kind = "positions"
    /\ fn' = [pc |-> "returned", op |-> "ecef_to_latlon",
              ret |-> Returned(ecef_to_latlon(heap.R))]
    /\ UNCHANGED <<kep, heap, plot, call, hist, tle>>

CallTrack2d ==
    /\ fn.pc = "args" /\ heap.kind = "elements"
    /\ fn' = [pc |-> "returned", op |-> "_2d",
              ret |-> GroundTrack2d(heap.L, heap.T)]
    /\ UNCHANGED <<kep, heap, plot, call, hist, tle>>

CallTrackLive ==
    /\ fn.pc = "args" /\ heap.kind = "elements"
    /\ fn' = [pc |-> "returned", op |-> "liveorbit",
              ret |-> GroundTrackLive(heap.L, heap.T, heap.g)]
    /\ UNCHANGED <<kep, heap, plot, call, hist, tle>>

NextFrame == CallEciToEcef \/ CallEcefToLatlon \/ CallTrack2d \/ CallTrackLive

SpecFrame == InitFrame /\ [][NextFrame]_vars

(* C11: eci_to_ecef with t_sec = 0 and gst0 = 0 returns its position argument,
   value for value and in the shape it was given: one 3-vector for one 3-vector,
   N rows for N rows. *)
C11_ZeroRotationIdentity ==
    (/\ fn.pc = "returned" /\ fn.op = "eci_to_ecef"
     /\ heap.t = ScalarT(0) /\ heap.g = 0) => fn.ret = Returned(heap.R)

C11_Witness ==
    /\ fn.pc = "returned" /\ fn.op = "eci_to_ecef"
    /\ heap.t = ScalarT(0) /\ heap.g = 0
    /\ heap.R = Vec(<<-5000, -3000, 4000>>)
    /\ fn.ret = Returned(Vec(<<-5000, -3000, 4000>>))

(* C12: for N positions and N time offsets eci_to_ecef returns N rows in input
   order; row k is position k turned about the polar axis by the angle of its own
   time offset, gst0 + OMEGA_EARTH * t[k] (what the call returns for position k and
   time t[k] alone), and its z component is that of position k. *)
C12_PerSampleRotation ==
    (/\ fn.pc = "returned" /\ fn.op = "eci_to_ecef"
     /\ heap.R.shape = "rows" /\ heap.t.shape = "array"
     /\ Len(heap.t.val) = Len(heap.R.val)) =>
        /\ fn.ret.exc = None
        /\ fn.ret.val.shape = "rows"
        /\ Len(fn.ret.val.val) = Len(heap.R.val)
        /\ \A k \in 1..Len(heap.R.val) :
              /\ fn.ret.val.val[k][3] = heap.R.val[k][3]
              /\ Returned(Vec(fn.ret.val.val[k]))
                     = eci_to_ecef(Vec(heap.R.val[k]), ScalarT(heap.t.val[k]), heap.g)
              /\ fn.ret.val.val[k]
                     = EciRotate(heap.g + RDiv(OMEGA_EARTH * heap.t.val[k], OMEGA_UNIT),
                                 heap.R.val[k])

C12_Witness ==
    /\ fn.pc = "returned" /\ fn.op = "eci_to_ecef"
    /\ heap.R = Rows(<<(<<7000, 0, 0>>), (<<7000, 0, 0>>)>>)
    /\ heap.t = ArrayT(<<0, 3600>>)
    /\ heap.g = 0
    /\ fn.ret.exc = None
    /\ fn.ret.val.val[1] = <<7000, 0, 0>>
    /\ fn.ret.val.val[2] # fn.ret.val.val[1]

(* C13: every latitude ecef_to_latlon returns is in [-90, 90] and every longitude
   in [-180, 180], and every longitude the _2d and liveorbit displays hand to the
   plot items is in [-180, 180]. *)
C13_LatLonRange ==
    (fn.pc = "returned" /\ fn.op \in {"ecef_to_latlon", "_2d", "liveorbit"}
        /\ fn.ret.exc = None) =>
        \A k \in 1..Len(fn.ret.val.lat) :
            /\ fn.ret.val.lat[k] >= -90 * DEG_UNIT /\ fn.ret.val.lat[k] <= 90 * DEG_UNIT
            /\ fn.ret.val.lon[k] >= -180 * DEG_UNIT /\ fn.ret.val.lon[k] <= 180 * DEG_UNIT

\* the distance allowed between a computed radius and a: rotation entries and
\* components are each rounded to the grid
RadiusTolerance(a) == RDiv(a, 200) + 2

(* C17: for an element set with e = 0 (and a > 0), every position propagate_orbit
   returns, at every sampled time, has radius a to within the rounding of the
   arithmetic. *)
C17_CircularRadius ==
    (/\ fn.pc = "returned" /\ fn.op = "propagate_orbit"
     /\ Len(heap.L) = 6 /\ heap.L[1] > 0 /\ heap.L[2] = 0) =>
        /\ fn.ret.exc = None
        /\ Len(fn.ret.val) = Len(heap.T)
        /\ \A k \in 1..Len(fn.ret.val) :
              Abs(Norm3(fn.ret.val[k]) - heap.L[1]) <= RadiusTolerance(heap.L[1])

C17_Witness ==
    /\ fn.pc = "returned" /\ fn.op = "propagate_orbit"
    /\ heap.L = ElemsCirc /\ heap.T = <<0, 5000>>
    /\ fn.ret.exc = None
    /\ fn.ret.val[1] # fn.ret.val[2]
    /\ \A k \in 1..2 : Abs(Norm3(fn.ret.val[k]) - 7000) <= RadiusTolerance(7000)

----------------------------------------------------------------------------
(* orbit.py: OrbitPlot.  The arrays an OrbitPlot holds have thousands of rows
   (sample_points_per_orbit = 2000), so an array is kept as the expression that
   produced it: np.linspace with its arguments, propagate_orbit with the element
   values and the time array it was called with, eci_to_ecef with its arguments. *)

\* Python's None, and an argument left at its default None
NoneVal == [kind |-> "None"]

\* _prepare_propagation's default sample_points_per_orbit
SamplePointsPerOrbit == 2000

\* the smallest static sample count, max(300, ...)
MinStaticSamples == 300

\* revolves when the caller gives None in animation mode
DefaultRevolves == 2

\* liveorbit's sample_points
LiveSamplePoints == 2000

Max(x, y) == IF x >= y THEN x ELSE y

\* 2 * math.pi * math.sqrt(a**3 / 398600.4418) for a >= 0, in seconds
OrbitPeriod(a) ==
    RDiv(RDiv(RDiv(a * ISqrt(a * 10000), 100), ISqrt(MU_EARTH)) * TWO_PI, SCALE)

Linspace(start, stop, num) == [kind |-> "linspace", start |-> start, stop |-> stop, num |-> num]

PropagatedArray(elems, times) == [kind |-> "propagate_orbit", elems |-> elems, times |-> times]

EcefArray(r_eci, t_sec, gst0) == [kind |-> "eci_to_ecef", r_eci |-> r_eci, t_sec |-> t_sec, gst0 |-> gst0]

\* the key of a propagation request: Element Set, sample count, time span
RequestKey(elems, N, total_time) == [elems |-> elems, N |-> N, span |-> total_time]

NoKey == [elems |-> <<>>, N |-> -1, span |-> -1]

\* the started timers when the stop() below is left out
TimerStopSkipped(p) == p.running

\* if self.animation_timer: self.animation_timer.stop(); self.animation_timer.deleteLater()
\* The started timers of the OrbitPlot are kept by mode, in the order they were
\* started; the one self.animation_timer refers to is the last started.
TimerStop(p) ==
    IF p.animation_timer = NoneVal THEN p.running
    ELSE SubSeq(p.running, 1, Len(p.running) - 1)

\* OrbitPlot._prepare_propagation on instance p whose self.elems refers to a list holding
\* elems; revolves is <<>> for None and <<r>> for a number
prepare_propagation(p, elems, animation, revolves) ==
    LET a == elems[1]
    IN  IF a < 0
        THEN [exc |-> "ValueError", plot |-> p, propagated |-> FALSE, key |-> NoKey, N |-> 0, T |-> 0]
        ELSE
        LET T          == OrbitPeriod(a)
            p1         == [p EXCEPT !.animation_timer = NoneVal, !.running = TimerStop(p)]
            static     == ~animation /\ revolves # <<>>
            rev        == IF revolves # <<>> THEN revolves[1] ELSE DefaultRevolves
            total_time == T * rev
            N          == IF static THEN Max(MinStaticSamples, SamplePointsPerOrbit * rev)
                          ELSE SamplePointsPerOrbit * rev
            times      == Linspace(0, total_time, N)
            exc        == PropagateRaises(elems)
            r_eci      == PropagatedArray(elems, times)
        IN  IF exc # None
            THEN [exc |-> exc, plot |-> p1, propagated |-> TRUE,
                  key |-> RequestKey(elems, N, total_time), N |-> N, T |-> T]
            ELSE [exc |-> None,
                  plot |-> [p1 EXCEPT !.cached_times = times,
                                      !.cached_r_eci = r_eci,
                                      !.cached_r_ecef = EcefArray(r_eci, times, 0)],
                  propagated |-> TRUE,
                  key |-> RequestKey(elems, N, total_time), N |-> N, T |-> T]

\* _3d and _2d: interval_ms = max(1, int((period / points_per_orbit) * 1000))
AnimationInterval(period, N, revolves) ==
    LET orbits_to_show  == IF revolves # <<>> /\ revolves[1] # 0 THEN revolves[1]
                           ELSE DefaultRevolves
        points_per_orbit == Max(1, N \div orbits_to_show)
    IN  Max(1, (period * 1000) \div points_per_orbit)

QTimer(mode, interval_ms, N) ==
    [kind |-> "QTimer", mode |-> mode, interval_ms |-> interval_ms, N |-> N, i |-> 0]

\* revolves arguments the display calls are made with: None, 0, 1, 2
MaxRevolves == 2

RevolvesArgs == {<<>>} \cup {<<r>> : r \in 0..MaxRevolves}

\* values the caller later stores into its element list: (index, value)
CallerStores == {<<1, 8000>>}

\* element lists an OrbitPlot is built from
PlotElementLists == {ElemsLEO, ElemsLEO7, ElemsNegE, ElemsNegA, ElemsZeroA}

\* wall-clock readings of time.time() (s)
ClockReadings == {100, 4000}

\* quick-start.py: epoch_time_s of the element set tle_to_kepler6 returns for the
\* ISS lines, the entry kepler_elems[:-1] leaves out (s since 1970)
QuickStartEpoch == 20090 * 86400

\* The caller holds an element set and the list it hands to OrbitPlot: all seven
\* entries (examples/3d.py) or the first six (quick-start.py).
InitPlot ==
    /\ kep = Idle /\ fn = Idle /\ tle = Idle
    /\ \E L \in PlotElementLists :
          heap = [L |-> L, T |-> <<>>,
                  epoch_time_s |-> IF Len(L) = 7 THEN L[7] ELSE QuickStartEpoch]
    /\ plot = Idle
    /\ call = [op |-> None, exc |-> None, propagated |-> FALSE, used |-> <<>>, hit |-> FALSE]
    /\ hist = [ctor |-> <<>>, lastKey |-> NoKey, lastProp |-> NoneVal, animation |-> FALSE]

\* OrbitPlot.__init__(elems): self.elems = elems keeps a reference to the caller's list
Construct ==
    /\ plot = Idle
    /\ plot' = [pc |-> "built", elems |-> "L", epoch |-> heap.L[Len(heap.L)],
                layout |-> None, animation_timer |-> NoneVal, running |-> <<>>,
                marker_index |-> 0,
                cached_times |-> NoneVal, cached_r_eci |-> NoneVal,
                cached_r_ecef |-> NoneVal]
    /\ call' = [op |-> "__init__", exc |-> None, propagated |-> FALSE, used |-> <<>>,
                hit |-> FALSE]
    /\ hist' = [hist EXCEPT !.ctor = heap.L]
    /\ UNCHANGED <<kep, fn, heap, tle>>

\* the caller assigns to an entry of the list it built the OrbitPlot from
MutateCallerList ==
    /\ plot # Idle
    /\ \E st \in CallerStores : heap' = [heap EXCEPT !.L[st[1]] = st[2]]
    /\ UNCHANGED <<kep, fn, plot, call, hist, tle>>

\* the record of a display call that went through _prepare_propagation: what it
\* raised, whether it called propagate_orbit and on which element values, and whether
\* its key was that of the previous request
RequestRecord(op, res, exc) ==
    [op |-> op, exc |-> exc, propagated |-> res.propagated,
     used |-> IF res.propagated THEN heap.L ELSE <<>>,
     hit |-> res.key # NoKey /\ res.key = hist.lastKey]

\* OrbitPlot._3d(animation, revolves=revolves)
Show3d ==
    /\ plot # Idle
    /\ \E animation \in BOOLEAN : \E revolves \in RevolvesArgs :
         LET res == prepare_propagation([plot EXCEPT !.layout = "gl_widget"],
                                        heap.L, animation, revolves)
         IN  /\ plot' = IF res.exc # None THEN res.plot
                        ELSE IF animation
                        THEN [res.plot EXCEPT
                                !.marker_index = 0,
                                !.running = Append(TimerStop(res.plot), "_3d"),
                                !.animation_timer =
                                    QTimer("_3d", AnimationInterval(res.T, res.N, revolves), res.N)]
                        ELSE [res.plot EXCEPT !.marker_index = res.N - 1]
             /\ call' = RequestRecord("_3d", res, res.exc)
             /\ hist' = [hist EXCEPT !.lastKey = res.key, !.animation = animation,
                                     !.lastProp = IF res.exc = None
                                                  THEN res.plot.cached_r_eci ELSE @]
    /\ UNCHANGED <<kep, fn, heap, tle>>

\* OrbitPlot._2d(animation, revolves=revolves)
Show2d ==
    /\ plot # Idle
    /\ \E animation \in BOOLEAN : \E revolves \in RevolvesArgs :
         LET res == prepare_propagation([plot EXCEPT !.layout = "pg_plot"],
                                        heap.L, animation, revolves)
             \* line 507 reads lon[0]
             exc == IF res.exc = None /\ res.N = 0 THEN "IndexError" ELSE res.exc
         IN  /\ plot' = IF exc # None THEN res.plot
                        ELSE IF animation
                        THEN [res.plot EXCEPT
                                !.running = Append(TimerStop(res.plot), "_2d"),
                                !.animation_timer =
                                    QTimer("_2d", AnimationInterval(res.T, res.N, revolves), res.N)]
                        ELSE res.plot
             /\ call' = RequestRecord("_2d", res, exc)
             /\ hist' = [hist EXCEPT !.lastKey = res.key, !.animation = animation,
                                     !.lastProp = IF res.exc = None
                                                  THEN res.plot.cached_r_eci ELSE @]
    /\ UNCHANGED <<kep, fn, heap, tle>>

\* OrbitPlot.liveorbit(epoch_time=None): the epoch is self._epoch; the timer's callback
\* keeps epoch_ts, gst0 and half_window_time
LiveOrbit ==
    /\ plot # Idle
    /\ LET a == heap.L[1]
       IN  IF a < 0
           THEN /\ plot' = [plot EXCEPT !.layout = "pg_plot"]
                /\ call' = [op |-> "liveorbit", exc |-> "ValueError",
                            propagated |-> FALSE, used |-> <<>>, hit |-> FALSE]
           ELSE LET period == OrbitPeriod(a)
                IN  /\ plot' = [plot EXCEPT
                                  !.layout = "pg_plot",
                                  !.running = Append(TimerStop(plot), "liveorbit"),
                                  !.animation_timer =
                                      [kind |-> "QTimer", mode |-> "liveorbit",
                                       interval_ms |-> Max(1, (period * 1000) \div LiveSamplePoints),
                                       N |-> LiveSamplePoints, i |-> 0,
                                       epoch_ts |-> plot.epoch,
                                       gst0 |-> [kind |-> "gmst_rad", unix_ts |-> plot.epoch],
                                       half_window_time |-> period \div 2]]
                    /\ call' = [op |-> "liveorbit", exc |-> None,
                                propagated |-> FALSE, used |-> <<>>, hit |-> FALSE]
    /\ UNCHANGED <<kep, fn, heap, hist, tle>>

\* liveorbit's update_live, run by the timer: propagates self.elems over a window
\* centred on now and leaves the cache fields alone
LiveTick ==
    /\ plot # Idle
    /\ plot.animation_timer.kind = "QTimer"
    /\ plot.animation_timer.mode = "liveorbit"
    /\ plot.running # <<>>
    /\ \E now \in ClockReadings :
         LET tm    == plot.animation_timer
             t_rel == Linspace(now - tm.half_window_time - tm.epoch_ts,
                               now + tm.half_window_time - tm.epoch_ts, LiveSamplePoints)
         IN  /\ call' = [op |-> "update_live", exc |-> PropagateRaises(heap.L),
                         propagated |-> TRUE, used |-> heap.L, hit |-> FALSE]
             /\ hist' = [hist EXCEPT !.lastProp = IF PropagateRaises(heap.L) = None
                                                  THEN PropagatedArray(heap.L, t_rel)
                                                  ELSE @]
    /\ UNCHANGED <<kep, fn, heap, plot, tle>>

\* most timer ticks of one animation followed
MaxTicks == 2

\* _3d's update_frame, run by the timer: steps the index over the series that
\* set_positions_ecef was given and moves the marker
Tick3d ==
    /\ plot # Idle
    /\ plot.animation_timer.kind = "QTimer"
    /\ plot.animation_timer.mode = "_3d"
    /\ plot.running # <<>>
    /\ plot.animation_timer.i < MaxTicks
    /\ LET N == plot.animation_timer.N
       IN  IF N = 0
           THEN \* index['i'] = (index['i'] + 1) % N raises
                /\ plot' = plot
                /\ call' = [op |-> "update_frame", exc |-> "ZeroDivisionError",
                            propagated |-> FALSE, used |-> <<>>, hit |-> FALSE]
           ELSE LET i == (plot.animation_timer.i + 1) % N
                IN  /\ plot' = [plot EXCEPT !.animation_timer.i = i, !.marker_index = i]
                    /\ call' = [op |-> "update_frame", exc |-> None,
                                propagated |-> FALSE, used |-> <<>>, hit |-> FALSE]
    /\ UNCHANGED <<kep, fn, heap, hist, tle>>

\* _2d's update2d, run by the timer: steps the index and redraws the track from the
\* lat and lon arrays computed when _2d was called
Tick2d ==
    /\ plot # Idle
    /\ plot.animation_timer.kind = "QTimer"
    /\ plot.animation_timer.mode = "_2d"
    /\ plot.running # <<>>
    /\ plot.animation_timer.i < MaxTicks
    /\ LET N == plot.animation_timer.N
       IN  IF N = 0
           THEN /\ plot' = plot
                /\ call' = [op |-> "update2d", exc |-> "ZeroDivisionError",
                            propagated |-> FALSE, used |-> <<>>, hit |-> FALSE]
           ELSE /\ plot' = [plot EXCEPT !.animation_timer.i = (plot.animation_timer.i + 1) % N]
                /\ call' = [op |-> "update2d", exc |-> None,
                            propagated |-> FALSE, used |-> <<>>, hit |-> FALSE]
    /\ UNCHANGED <<kep, fn, heap, hist, tle>>

\* EarthGLWidget.paintGL: idx = max(0, min(self.marker_index, len(pts)-1)), taken
\* only when satellite_positions holds at least one row
paintGL_idx(marker_index, len) ==
    IF len = 0 THEN NoneVal
    ELSE LET m == IF marker_index < len - 1 THEN marker_index ELSE len - 1
         IN  IF m > 0 THEN m ELSE 0

Next ==
    \/ Construct \/ MutateCallerList \/ Show3d \/ Show2d \/ LiveOrbit
    \/ LiveTick \/ Tick3d \/ Tick2d

Spec == InitPlot /\ [][Next]_vars

(* C1: a completed _2d or _3d request whose (Element Set, sample count, time span) key is the
   key of the previous request does not call propagate_orbit again. *)
C1_CacheHit ==
    (call.op \in {"_2d", "_3d"} /\ call.exc = None /\ call.hit) => ~call.propagated

(* C4: every propagation of an OrbitPlot, in _prepare_propagation or in a liveorbit
   tick, uses the element values the OrbitPlot was constructed with, whatever the
   caller has stored into its list since. *)
C4_ElementsCopied ==
    (plot # Idle /\ call.propagated) => call.used = hist.ctor

(* C5: a _2d or _3d call on an OrbitPlot built from a seven-entry Element Set (six
   elements and the epoch timestamp) that still holds its values completes and
   leaves the cached times and positions filled. *)
C5_SevenEntryAccepted ==
    (/\ call.op \in {"_2d", "_3d"}
     /\ Len(hist.ctor) = 7 /\ ValidElements(hist.ctor)
     /\ heap.L = hist.ctor) =>
        /\ call.exc = None
        /\ plot.cached_times.kind # "None"
        /\ plot.cached_r_eci.kind # "None"
        /\ plot.cached_r_ecef.kind # "None"

(* C20: no timer tick of a started display mode calls propagate_orbit: the ticks of
   _3d (update_frame), _2d (update2d) and liveorbit (update_live) only read the
   series computed when the mode was started. *)
C20_TicksDoNotPropagate ==
    call.op \in {"update_frame", "update2d", "update_live"} => ~call.propagated

(* C21: the three cache fields of an OrbitPlot are either all unset, or they are the
   time array, the inertial positions propagated over that time array and the
   Earth-fixed positions made from those two, and the positions are those of the
   most recent propagation the OrbitPlot has made, in _3d, _2d or a liveorbit tick. *)
C21_SingleCacheEntry ==
    plot # Idle =>
        IF plot.cached_times = NoneVal
        THEN plot.cached_r_eci = NoneVal /\ plot.cached_r_ecef = NoneVal
        ELSE /\ plot.cached_r_eci # NoneVal /\ plot.cached_r_ecef # NoneVal
             /\ plot.cached_r_eci.times = plot.cached_times
             /\ plot.cached_r_ecef = EcefArray(plot.cached_r_eci, plot.cached_times, 0)
             /\ plot.cached_r_eci = hist.lastProp

(* C22: an animated _3d call ignores revolves: whatever revolves was given, the
   sample times, the number of samples, the propagated path and the timer interval
   are those of the same call made with revolves left at None. *)
C22_AnimatedIgnoresRevolves ==
    (/\ plot # Idle /\ call.op = "_3d" /\ call.exc = None
     /\ ValidElements(call.used)
     /\ plot.animation_timer # NoneVal) =>
        LET ref == prepare_propagation(plot, call.used, TRUE, <<>>)
        IN  /\ plot.cached_times = ref.plot.cached_times
            /\ plot.animation_timer.N = ref.N
            /\ plot.cached_r_eci = ref.plot.cached_r_eci
            /\ plot.animation_timer.interval_ms = AnimationInterval(ref.T, ref.N, <<>>)

(* C25: after an animated _3d or _2d call, for every revolves, the timer interval is
   max(1, int(period / sample_points_per_orbit * 1000)) ms, and the spacing of the
   sample times, span / (N - 1), is the spacing the call has with revolves = 1,
   period / (sample_points_per_orbit - 1). *)
C25_SpeedIndependentOfRevolves ==
    (/\ plot # Idle /\ call.op \in {"_3d", "_2d"} /\ call.exc = None
     /\ ValidElements(call.used)
     /\ plot.animation_timer # NoneVal) =>
        LET period == OrbitPeriod(call.used[1])
        IN  /\ plot.animation_timer.interval_ms
                  = Max(1, (period * 1000) \div SamplePointsPerOrbit)
            /\ (plot.cached_times.stop - plot.cached_times.start) * (SamplePointsPerOrbit - 1)
                  = period * (plot.cached_times.num - 1)

(* C26: an OrbitPlot never has more than one started timer; when a _3d, _2d or
   liveorbit call has completed, the started timer, if there is one, is the one that
   call started and self.animation_timer refers to it; after a completed static
   (animation=False) call no timer is started. *)
C26_OneTimer ==
    plot # Idle =>
        /\ Len(plot.running) <= 1
        /\ plot.animation_timer = NoneVal => plot.running = <<>>
        /\ plot.animation_timer # NoneVal =>
              plot.running = <<plot.animation_timer.mode>>
        /\ (call.op \in {"_3d", "_2d"} /\ call.exc = None) =>
              plot.running = (IF hist.animation THEN <<call.op>> ELSE <<>>)
        /\ (call.op = "liveorbit" /\ call.exc = None) => plot.running = <<"liveorbit">>

\* liveorbit has replaced the timer of an animated _3d or _2d call, whose series
\* is still cached
C26_Witness ==
    /\ plot # Idle
    /\ call.op = "liveorbit" /\ call.exc = None
    /\ hist.animation /\ plot.cached_times # NoneVal
    /\ plot.cached_times.num = SamplePointsPerOrbit
    /\ plot.running = <<"liveorbit">>

(* C27: whatever revolves a _3d or _2d animation of a valid Element Set was started
   with, each tick of its timer completes without an exception and leaves the frame
   index in 0..N-1; and the row paintGL draws the marker at lies in 0..len-1 for
   every non-empty position array, whatever marker_index holds. *)
C27_FrameIndexInRange ==
    /\ (/\ plot # Idle /\ call.op \in {"update_frame", "update2d"}
        /\ plot.cached_r_eci # NoneVal
        /\ ValidElements(plot.cached_r_eci.elems)) =>
          /\ call.exc = None
          /\ plot.animation_timer.N > 0
          /\ plot.animation_timer.i \in 0 .. plot.animation_timer.N - 1
    /\ plot # Idle =>
          \A len \in 1 .. MaxRows :
              paintGL_idx(plot.marker_index, len) \in 0 .. len - 1

(* C30: a liveorbit call without epoch_time on an OrbitPlot built from the six
   elements of a valid Element Set anchors GMST at, and counts the propagation times
   from, the element set's epoch_time_s. *)
C30_LiveOrbitEpoch ==
    (/\ plot # Idle /\ Len(hist.ctor) = 6 /\ ValidElements(hist.ctor)
     /\ plot.animation_timer # NoneVal
     /\ plot.animation_timer.mode = "liveorbit") =>
        /\ plot.animation_timer.epoch_ts = heap.epoch_time_s
        /\ plot.animation_timer.gst0 = [kind |-> "gmst_rad", unix_ts |-> heap.epoch_time_s]

----------------------------------------------------------------------------
(* orb_math.tle_to_kepler6.  A line is a sequence of one-character strings.  A parsed
   decimal number is kept exactly as far as seven fractional digits: its sign, its
   integer part, and its fraction in units of 1e-7. *)

FRAC_DIGITS == 7

FRAC_UNIT == 10000000

Min(x, y) == IF x <= y THEN x ELSE y

DigitChars == <<"0", "1", "2", "3", "4", "5", "6", "7", "8", "9">>

IsDigit(c) == \E d \in 1..10 : DigitChars[d] = c

DigitVal(c) == (CHOOSE d \in 1..10 : DigitChars[d] = c) - 1

\* Python's s[lo:hi] for 0 <= lo <= hi: the bounds are clamped to the length, and a
\* slice that starts past the end is empty
PySlice(s, lo, hi) == SubSeq(s, Min(lo, Len(s)) + 1, Min(hi, Len(s)))

RECURSIVE LStrip(_)
LStrip(s) == IF s # <<>> /\ s[1] = " " THEN LStrip(Tail(s)) ELSE s

RECURSIVE RStrip(_)
RStrip(s) == IF s # <<>> /\ s[Len(s)] = " " THEN RStrip(SubSeq(s, 1, Len(s) - 1)) ELSE s

\* str.strip()
Strip(s) == RStrip(LStrip(s))

\* the text after an optional leading sign
Unsigned(t) == IF t # <<>> /\ t[1] \in {"+", "-"} THEN Tail(t) ELSE t

IsNegative(t) == t # <<>> /\ t[1] = "-"

\* the position of the decimal point in b, or Len(b) + 1 when there is none
PointAt(b) ==
    IF \E k \in 1..Len(b) : b[k] = "."
    THEN CHOOSE k \in 1..Len(b) : b[k] = "." /\ \A j \in 1..(k - 1) : b[j] # "."
    ELSE Len(b) + 1

RECURSIVE DigitsToInt(_)
DigitsToInt(ds) ==
    IF ds = <<>> THEN 0
    ELSE 10 * DigitsToInt(SubSeq(ds, 1, Len(ds) - 1)) + DigitVal(ds[Len(ds)])

\* ds cut or padded with zeros to FRAC_DIGITS digits
FracDigits(ds) ==
    [k \in 1..FRAC_DIGITS |-> IF k <= Len(ds) THEN ds[k] ELSE "0"]

\* the texts float() accepts, on the alphabet of digits, sign, point, blank and
\* letters: surrounding blanks, an optional sign, then nan, inf, or digits with at
\* most one point and at least one digit
FloatAccepts(s) ==
    LET b == Unsigned(Strip(s))
    IN  \/ b \in {<<"n", "a", "n">>, <<"i", "n", "f">>}
        \/ /\ \A k \in 1..Len(b) : IsDigit(b[k]) \/ b[k] = "."
           /\ Cardinality({k \in 1..Len(b) : b[k] = "."}) <= 1
           /\ \E k \in 1..Len(b) : IsDigit(b[k])

\* float(s) for a text float() accepts
FloatValue(s) ==
    LET t == Strip(s)
        b == Unsigned(t)
        p == PointAt(b)
    IN  IF b = <<"n", "a", "n">> THEN [kind |-> "nan"]
        ELSE IF b = <<"i", "n", "f">> THEN [kind |-> "inf", neg |-> IsNegative(t)]
        ELSE [kind |-> "num", neg |-> IsNegative(t),
              ip |-> DigitsToInt(SubSeq(b, 1, p - 1)),
              fp |-> DigitsToInt(FracDigits(SubSeq(b, p + 1, Len(b))))]

Num(ip, fp) == [kind |-> "num", neg |-> FALSE, ip |-> ip, fp |-> fp]

IsZero(x) == x.kind = "num" /\ x.ip = 0 /\ x.fp = 0

\* the texts int() accepts: surrounding blanks, an optional sign, digits
IntAccepts(s) ==
    LET b == Unsigned(Strip(s))
    IN  b # <<>> /\ \A k \in 1..Len(b) : IsDigit(b[k])

\* int(s) for a text int() accepts
IntValue(s) ==
    LET t == Strip(s)
        v == DigitsToInt(Unsigned(t))
    IN  IF IsNegative(t) THEN -v ELSE v

\* the NORAD threshold of line 196
TleYearPivot == 57

\* year = 1900 + yy for every yy
TleYearNoPivot(yy) == 1900 + yy

\* year = 2000 + yy if yy < 57 else 1900 + yy
TleYear(yy) == IF yy < TleYearPivot THEN 2000 + yy ELSE 1900 + yy

\* whole days from 1970-01-01 to 1 January of year, for 1901 <= year <= 2099
DaysToJan1(year) == 365 * (year - 1970) + ((year - 1969) \div 4)

\* (jan1 + timedelta(days=day_of_year - 1.0)).timestamp(), kept as whole days since
\* 1970-01-01 00:00 UTC and a fraction of a day in units of 1e-7
TleEpochTime(year, doy) ==
    LET d0 == DaysToJan1(year) - 1
    IN  IF ~doy.neg THEN [days |-> d0 + doy.ip, frac |-> doy.fp]
        ELSE IF doy.fp = 0 THEN [days |-> d0 - doy.ip, frac |-> 0]
        ELSE [days |-> d0 - doy.ip - 1, frac |-> FRAC_UNIT - doy.fp]

\* the largest r' >= r with r'^3 <= n, found one binary digit at a time from b down
RECURSIVE ICbrtBit(_, _, _)
ICbrtBit(n, r, b) ==
    IF b = 0 THEN r
    ELSE LET c == r + b
         IN  IF c <= 1290 /\ c * c * c <= n THEN ICbrtBit(n, c, b \div 2)
             ELSE ICbrtBit(n, r, b \div 2)

\* floor of the cube root of n, 0 <= n < 2^31
ICbrt(n) == ICbrtBit(n, 0, 1024)

\* the semi-major axis with n_rad_s = pi * n / 86400
TleSemiMajorAxisHalfRate(n) ==
    LET n4      == n.ip * 10000 + (n.fp \div 1000)
        n_rad_s == RDiv(PI * n4, 864)
        c       == ICbrt(n_rad_s * 1000)
    IN  RDiv(ICbrt(MU_EARTH * 1000) * 1000000, RDiv(c * c, 10))

\* lines 211-212 for a mean motion n > 0 (rev/day): n_rad_s = 2*pi*n/86400 in 1e-9
\* rad/s, its cube root in 1e-4, MU_EARTH ** (1/3) in 0.1, a_km to the nearest km
TleSemiMajorAxis(n) ==
    LET n4      == n.ip * 10000 + (n.fp \div 1000)
        n_rad_s == RDiv(TWO_PI * n4, 864)
        c       == ICbrt(n_rad_s * 1000)
    IN  RDiv(ICbrt(MU_EARTH * 1000) * 1000000, RDiv(c * c, 10))

\* a_km from the parsed mean motion: 0.0 ** (2/3) is 0.0 and the division raises; a
\* negative float to a fractional power is a complex number
TleAxis(n) ==
    IF n.kind = "nan" THEN Returned([kind |-> "nan"])
    ELSE IF n.kind = "inf" THEN Returned(Num(0, 0))
    ELSE IF IsZero(n) THEN Raised("ZeroDivisionError")
    ELSE IF n.neg THEN Returned([kind |-> "complex"])
    ELSE Returned(Num(TleSemiMajorAxis(n), 0))

\* the fields with the mean motion read to the end of line 2
TleFieldsWide(line1, line2) ==
    LET epoch_str == Strip(PySlice(line1, 18, 32))
    IN  [yy     |-> PySlice(epoch_str, 0, 2),
         doy    |-> PySlice(epoch_str, 2, Len(epoch_str)),
         i_deg  |-> PySlice(line2, 8, 16),
         raan   |-> PySlice(line2, 17, 25),
         e      |-> <<"0", ".">> \o Strip(PySlice(line2, 26, 33)),
         argp   |-> PySlice(line2, 34, 42),
         M0     |-> PySlice(line2, 43, 51),
         n      |-> PySlice(line2, 52, 69)]

\* the fields tle_to_kepler6 slices, in the order it converts them
TleFields(line1, line2) ==
    LET epoch_str == Strip(PySlice(line1, 18, 32))
    IN  [yy     |-> PySlice(epoch_str, 0, 2),
         doy    |-> PySlice(epoch_str, 2, Len(epoch_str)),
         i_deg  |-> PySlice(line2, 8, 16),
         raan   |-> PySlice(line2, 17, 25),
         e      |-> <<"0", ".">> \o Strip(PySlice(line2, 26, 33)),
         argp   |-> PySlice(line2, 34, 42),
         M0     |-> PySlice(line2, 43, 51),
         n      |-> PySlice(line2, 52, 63)]

tle_to_kepler6(line1, line2) ==
    LET f == TleFields(line1, line2)
    IN  IF ~IntAccepts(f.yy) THEN Raised("ValueError")
        ELSE IF ~FloatAccepts(f.doy) THEN Raised("ValueError")
        ELSE IF FloatValue(f.doy).kind = "nan" THEN Raised("ValueError")
        ELSE IF FloatValue(f.doy).kind = "inf" THEN Raised("OverflowError")
        ELSE IF \E x \in {f.i_deg, f.raan, f.e, f.argp, f.M0, f.n} : ~FloatAccepts(x)
             THEN Raised("ValueError")
        ELSE LET a_km == TleAxis(FloatValue(f.n))
             IN  IF a_km.exc # None THEN a_km
                 ELSE Returned(<<a_km.val, FloatValue(f.e), FloatValue(f.i_deg),
                                 FloatValue(f.raan), FloatValue(f.argp), FloatValue(f.M0),
                                 TleEpochTime(TleYear(IntValue(f.yy)), FloatValue(f.doy))>>)

\* quick-start.py: the ISS element set
L1 ==
    <<"1", " ", "2", "5", "5", "4", "4", "U", " ", "9", "8", "0",
      "6", "7", "A", " ", " ", " ", "2", "5", "2", "2", "9", ".",
      "1", "8", "0", "3", "4", "9", "4", "6", " ", " ", ".", "0",
      "0", "0", "0", "9", "6", "1", "9", " ", " ", "0", "0", "0",
      "0", "0", "-", "0", " ", " ", "1", "7", "6", "4", "5", "-",
      "3", " ", "0", " ", " ", "9", "9", "9", "6">>

L2 ==
    <<"2", " ", "2", "5", "5", "4", "4", " ", " ", "5", "1", ".",
      "6", "3", "5", "6", " ", " ", " ", "4", ".", "7", "5", "5",
      "0", " ", "0", "0", "0", "3", "4", "9", "9", " ", "2", "2",
      "9", ".", "5", "0", "7", "5", " ", "1", "3", "0", ".", "5",
      "6", "0", "9", " ", "1", "5", ".", "4", "9", "9", "7", "5",
      "7", "6", "1", "5", "2", "4", "6", "2", "1">>

\* s with the columns from 0-based column at on replaced by t
Patch(s, at, t) ==
    [k \in 1..Len(s) |-> IF k > at /\ k <= at + Len(t) THEN t[k - at] ELSE s[k]]

\* lengths the lines are cut to
Line1Lengths == {0, 18, 20, 21, 25, 31, 32, 69}

Line2Lengths == {0, 52, 53, 57, 62, 63, 69}

\* texts written over a field of line 2
Blank(n) == [k \in 1..n |-> " "]

Line1Inputs == {SubSeq(L1, 1, n) : n \in Line1Lengths}

Line2Inputs ==
    {SubSeq(L2, 1, n) : n \in Line2Lengths}
    \cup {Patch(L2, 26, Blank(7)),
          Patch(L2, 26, <<"X", "X", "X", "X", "X", "X", "X">>),
          Patch(L2, 8, Blank(8)),
          Patch(L2, 8, <<" ", " ", " ", " ", " ", "n", "a", "n">>),
          Patch(L2, 52, <<" ", "0", ".", "0", "0", "0", "0", "0", "0", "0", "0">>),
          Patch(L2, 52, <<"-", "1", "5", ".", "4", "9", "9", "7", "5", "7", "6">>)}

InitTLE ==
    /\ kep = Idle /\ fn = Idle /\ heap = Idle /\ plot = Idle /\ call = Idle /\ hist = Idle
    /\ \E l1 \in Line1Inputs : \E l2 \in Line2Inputs :
         tle = [pc |-> "lines", line1 |-> l1, line2 |-> l2, ret |-> NoCall]

\* the caller reads two new lines
TleSetLines ==
    /\ tle.pc = "done"
    /\ \E l1 \in Line1Inputs : \E l2 \in Line2Inputs :
         tle' = [pc |-> "lines", line1 |-> l1, line2 |-> l2, ret |-> NoCall]
    /\ UNCHANGED <<kep, fn, heap, plot, call, hist>>

\* kepler_elems = tle_to_kepler6(line1, line2)
TleParse ==
    /\ tle.pc = "lines"
    /\ tle' = [tle EXCEPT !.pc = "done", !.ret = tle_to_kepler6(tle.line1, tle.line2)]
    /\ UNCHANGED <<kep, fn, heap, plot, call, hist>>

NextTLE == TleSetLines \/ TleParse

SpecTLE == InitTLE /\ [][NextTLE]_vars

\* a field of the fixed-width layout that holds a number: digits with at most one
\* point and an optional sign, between blanks
IsNumberField(s) ==
    LET b == Unsigned(Strip(s))
    IN  /\ \A k \in 1..Len(b) : IsDigit(b[k]) \/ b[k] = "."
        /\ Cardinality({k \in 1..Len(b) : b[k] = "."}) <= 1
        /\ \E k \in 1..Len(b) : IsDigit(b[k])

\* the lines have the width of the layout and every sliced field holds a number
TleWellFormed(line1, line2) ==
    /\ Len(line1) >= 32
    /\ Len(line2) >= 63
    /\ IsNumberField(PySlice(line1, 18, 32))
    /\ \A c \in {<<8, 16>>, <<17, 25>>, <<26, 33>>, <<34, 42>>, <<43, 51>>, <<52, 63>>} :
          IsNumberField(PySlice(line2, c[1], c[2]))

(* C3: tle_to_kepler6 fails with an error, returning no element set, whenever line1
   is shorter than 32 characters, line2 is shorter than 63 characters, or one of the
   sliced fields is not a number. *)
C3_MalformedFails ==
    (tle.pc = "done" /\ ~TleWellFormed(tle.line1, tle.line2)) => tle.ret.exc # None

\* s with every column outside keep (0-based) overwritten by the character c
Scramble(s, keep, c) == [k \in 1..Len(s) |-> IF (k - 1) \in keep THEN s[k] ELSE c]

Line1Columns == 18..31

Line2Columns == (8..15) \cup (17..24) \cup (26..32) \cup (34..41) \cup (43..50) \cup (52..62)

ScrambleChars == {"X", "9", " ", "-"}

(* C15: the outcome of tle_to_kepler6 depends only on columns 18..31 of line 1 and
   columns 8..15, 17..24, 26..32, 34..41, 43..50, 52..62 of line 2: overwriting
   every other column of both lines (line number, catalogue id, separators,
   revolution count, checksum) with any character gives the same result or the same
   error, so a wrong checksum never makes a parse fail. *)
C15_ColumnsOnly ==
    tle.pc = "done" =>
        \A c1 \in ScrambleChars, c2 \in ScrambleChars :
            tle_to_kepler6(Scramble(tle.line1, Line1Columns, c1),
                           Scramble(tle.line2, Line2Columns, c2)) = tle.ret

C15_Witness ==
    /\ tle.pc = "done"
    /\ tle.line1 = L1 /\ tle.line2 = L2
    /\ tle.ret.exc = None
    /\ Scramble(L1, Line1Columns, "9")[69] # L1[69]
    /\ Scramble(L2, Line2Columns, "9")[69] # L2[69]
    /\ tle_to_kepler6(Scramble(L1, Line1Columns, "9"), Scramble(L2, Line2Columns, "9"))
           = tle.ret

(* C23: parsing the ISS lines of quick-start.py returns i_deg = 51.6356,
   raan_deg = 4.7550, e = 0.0003499, argp_deg = 229.5075, M0_deg = 130.5609 and a
   semi-major axis within 10 km of 6790 km. *)
C23_IssExample ==
    (tle.pc = "done" /\ tle.line1 = L1 /\ tle.line2 = L2) =>
        /\ tle.ret.exc = None
        /\ tle.ret.val[3] = Num(51, 6356000)
        /\ tle.ret.val[4] = Num(4, 7550000)
        /\ tle.ret.val[2] = Num(0, 3499)
        /\ tle.ret.val[5] = Num(229, 5075000)
        /\ tle.ret.val[6] = Num(130, 5609000)
        /\ tle.ret.val[1].kind = "num"
        /\ Abs(tle.ret.val[1].ip - 6790) <= 10

C23_Witness ==
    /\ tle.pc = "done" /\ tle.line1 = L1 /\ tle.line2 = L2
    /\ tle.ret.exc = None
    /\ tle.ret.val[1] = Num(6795, 0)
    /\ tle.ret.val[2] = Num(0, 3499)

(* C29: an element set that tle_to_kepler6 returns has a real semi-major axis
   a_km > 0 and an eccentricity with 0 <= e < 1, whatever the eccentricity and
   mean-motion columns of line 2 held. *)
C29_ParsedElementsValid ==
    (tle.pc = "done" /\ tle.ret.exc = None) =>
        LET a_km == tle.ret.val[1]
            e    == tle.ret.val[2]
        IN  /\ a_km.kind = "num" /\ ~a_km.neg /\ ~IsZero(a_km)
            /\ e.kind = "num" /\ ~e.neg /\ e.ip = 0

----------------------------------------------------------------------------
(* tle_to_kepler6 on line 1 of the ISS set with the epoch field (columns 18..31)
   rewritten for every two-digit year and several days of the year. *)

\* the epoch field YYDDD.DDDDDDDD for a year 0..99, a day 0..999 and a fraction of
\* a day in units of 1e-7
EpochText(yy, day, frac) ==
    <<DigitChars[(yy \div 10) + 1], DigitChars[(yy % 10) + 1],
      DigitChars[(day \div 100) + 1], DigitChars[((day \div 10) % 10) + 1],
      DigitChars[(day % 10) + 1], ".">>
    \o [k \in 1..FRAC_DIGITS |->
           DigitChars[((frac \div (10 ^ (FRAC_DIGITS - k))) % 10) + 1]]
    \o <<"0">>

TwoDigitYears == 0..99

EpochDays == {[day |-> 1, frac |-> 0], [day |-> 60, frac |-> 2500000],
              [day |-> 229, frac |-> 1803494], [day |-> 366, frac |-> 5000000]}

InitEpoch ==
    /\ kep = Idle /\ fn = Idle /\ heap = Idle /\ plot = Idle /\ call = Idle /\ hist = Idle
    /\ \E yy \in TwoDigitYears : \E d \in EpochDays :
         tle = [pc |-> "lines", line1 |-> Patch(L1, 18, EpochText(yy, d.day, d.frac)),
                line2 |-> L2, ret |-> NoCall]

SpecEpoch == InitEpoch /\ [][TleParse]_vars

\* leap years of the Gregorian calendar before year y
LeapsBefore(y) == ((y - 1) \div 4) - ((y - 1) \div 100) + ((y - 1) \div 400)

\* whole days from 1970-01-01 to 1 January of year y in the Gregorian calendar
GregorianJan1(y) == 365 * (y - 1970) + LeapsBefore(y) - LeapsBefore(1970)

(* C14: for every two-digit year yy in 0..99 in the epoch field of line 1 the parse
   succeeds and the epoch it returns is 00:00 UTC on 1 January of 2000 + yy when
   yy < 57, of 1900 + yy otherwise, plus (day_of_year - 1) days. *)
C14_EpochYear ==
    \A yy \in TwoDigitYears : \A d \in EpochDays :
        (tle.pc = "done" /\ tle.line1 = Patch(L1, 18, EpochText(yy, d.day, d.frac))) =>
            /\ tle.ret.exc = None
            /\ tle.ret.val[7] =
                  [days |-> GregorianJan1(IF yy < 57 THEN 2000 + yy ELSE 1900 + yy)
                              + d.day - 1,
                   frac |-> d.frac]

C14_Witness ==
    /\ tle.pc = "done"
    /\ tle.line1 = Patch(L1, 18, EpochText(56, 60, 2500000))
    /\ tle.ret.exc = None
    /\ tle.ret.val[7] = [days |-> GregorianJan1(2056) + 59, frac |-> 2500000]

----------------------------------------------------------------------------
(* kepler_E, one Newton update at a time *)

\* most elements in a batch of mean anomalies
MaxBatch == 2

\* largest maxiter argument tried
MaxIterArg == 3

\* mean anomalies (1/SCALE rad) the batches are drawn from
MeanAnomalies == {0, 100, 2500, -2000, 7000}

\* eccentricities (1/SCALE) the batches are drawn from
Eccentricities == {0, 500, 800, 900}

\* tol arguments tried (1/SCALE rad)
Tolerances == {DefaultTol, 50}

KeplerBatches == UNION {[1..n -> MeanAnomalies] : n \in 0..MaxBatch}

\* eccentricities (1/SCALE) a per-element e array is drawn from
ArrayEccentricities == {500, 900}

KeplerEccArgs(n) ==
    {ScalarE(v) : v \in Eccentricities} \cup {ArrayE(s) : s \in [1..n -> ArrayEccentricities]}

\* lines 31-38 for an array M: the state on entry to the loop
KeplerEnter(M, e, tol, maxiter) ==
    LET Mn == KeplerNormalize(M)
    IN  [pc |-> "loop", arg |-> M, M |-> Mn, e |-> e, tol |-> tol, maxiter |-> maxiter,
         E |-> KeplerGuess(Mn, e), dE |-> <<>>, it |-> 0]

\* lines 31-38 for a scalar M and a scalar e: the item assignment of line 38 raises
\* when the mask is set, and the loop is entered with the one value otherwise
KeplerEnterScalar(m, e, tol, maxiter) ==
    IF KeplerScalarGuessRaises(e.val)
    THEN [pc |-> "raised", arg |-> <<m>>, M |-> KeplerNormalize(<<m>>), e |-> e,
          tol |-> tol, maxiter |-> maxiter, E |-> <<>>, dE |-> <<>>, it |-> 0]
    ELSE KeplerEnter(<<m>>, e, tol, maxiter)

InitKepler ==
    /\ \E tol \in Tolerances : \E maxiter \in 0..MaxIterArg :
          \/ \E M \in KeplerBatches : \E e \in KeplerEccArgs(Len(M)) :
                kep = KeplerEnter(M, e, tol, maxiter)
          \/ \E m \in MeanAnomalies : \E v \in Eccentricities :
                kep = KeplerEnterScalar(m, ScalarE(v), tol, maxiter)
    /\ fn = Idle /\ heap = Idle /\ plot = Idle /\ call = Idle /\ hist = Idle /\ tle = Idle

\* lines 39-45: one pass of the loop body, leaving by break when every step is small
KeplerIterate ==
    /\ kep.pc = "loop"
    /\ kep.it < kep.maxiter
    /\ LET dE == NewtonDelta(kep.E, kep.M, kep.e)
       IN  kep' = [kep EXCEPT !.E = NewtonApply(kep.E, dE), !.dE = dE, !.it = kep.it + 1,
                              !.pc = IF AllBelow(dE, kep.tol) THEN "done" ELSE "loop"]
    /\ UNCHANGED <<fn, heap, plot, call, hist, tle>>

\* line 39 and 46: range(maxiter) is exhausted, return E
KeplerExhausted ==
    /\ kep.pc = "loop"
    /\ kep.it = kep.maxiter
    /\ kep' = [kep EXCEPT !.pc = "done"]
    /\ UNCHANGED <<fn, heap, plot, call, hist, tle>>

NextKepler == KeplerIterate \/ KeplerExhausted

\* the loop is straight-line code run to completion by its caller
SpecKepler == InitKepler /\ [][NextKepler]_vars /\ WF_vars(NextKepler)

(* C7: per-sample independence of kepler_E.  The value returned for element k of a
   batch equals the value kepler_E returns for that element solved alone, with the
   same eccentricity, tol and maxiter. *)
C7_SampleIndependent ==
    kep.pc = "done" =>
        \A k \in 1..Len(kep.arg) :
            kep.E[k] = kepler_E(<<kep.arg[k]>>, ScalarE(EAt(kep.e, k)), kep.tol, kep.maxiter)[1]

(* C9: kepler_E terminates after at most maxiter Newton updates; it leaves the loop
   early exactly when every element's |dE| is below tol; at the cap it returns the
   current estimate, one value per input element, and the only error it raises is
   raised before the first update. *)
C9_StopRule ==
    /\ kep.it <= kep.maxiter
    /\ (kep.pc = "loop" /\ kep.it > 0) => (\E k \in 1..Len(kep.dE) : Abs(kep.dE[k]) >= kep.tol)
    /\ (kep.pc = "done" /\ kep.it > 0 /\ kep.it < kep.maxiter)
          => (\A k \in 1..Len(kep.dE) : Abs(kep.dE[k]) < kep.tol)
    /\ (kep.pc = "done" /\ kep.it = 0) => kep.maxiter = 0
    /\ kep.pc = "done" => Len(kep.E) = Len(kep.arg)
    /\ kep.pc = "raised" => kep.it = 0

C9_KeplerTerminates == [](C9_StopRule) /\ <>(kep.pc \in {"done", "raised"})

\* the cap is reached with a step still at or above tol, and E is returned
C9_Witness ==
    /\ kep.pc = "done" /\ kep.maxiter > 0 /\ kep.it = kep.maxiter
    /\ \E k \in 1..Len(kep.dE) : Abs(kep.dE[k]) >= kep.tol

(* C24: on entry to the Newton loop, before the first update, the estimate of each
   element is its normalised mean anomaly, except that it is pi for an element whose
   eccentricity has |e| > 0.8: for the whole batch when e is one scalar, element by
   element when e is an array. *)
C24_InitialGuess ==
    (kep.pc = "loop" /\ kep.it = 0) =>
        /\ Len(kep.E) = Len(kep.arg)
        /\ \A k \in 1..Len(kep.E) :
              /\ kep.M[k] = WrapPi(kep.arg[k])
              /\ kep.e.shape = "scalar" =>
                    kep.E[k] = (IF Abs(kep.e.val) > 800 THEN PI ELSE kep.M[k])
              /\ kep.e.shape = "array" =>
                    kep.E[k] = (IF Abs(kep.e.val[k]) > 800 THEN PI ELSE kep.M[k])

\* a batch with one eccentricity on each side of 0.8
C24_Witness ==
    /\ kep.pc = "loop" /\ kep.it = 0
    /\ kep.arg = <<2500, 7000>>
    /\ kep.e = ArrayE(<<500, 900>>)
    /\ kep.E = <<2500, PI>>

----------------------------------------------------------------------------
(* kepler_E called with its default tol and maxiter, as propagate_orbit calls it *)

ResidualAnomalies == {-3000, -1000, 0, 100, 1000, 2500, 3000, 7000}

ResidualEccentricities == {0, 500, 800, 990}

InitResidual ==
    /\ \E m \in ResidualAnomalies : \E v \in ResidualEccentricities :
          kep = KeplerEnter(<<m>>, ScalarE(v), DefaultTol, DefaultMaxiter)
    /\ fn = Idle /\ heap = Idle /\ plot = Idle /\ call = Idle /\ hist = Idle /\ tle = Idle

SpecResidual == InitResidual /\ [][NextKepler]_vars /\ WF_vars(NextKepler)

\* |E - e*sin(E) - M'| for element k, M' being M after the normalisation of line 34
KeplerResidual(k) ==
    Abs(kep.E[k] - RDiv(EAt(kep.e, k) * Sin(kep.E[k]), SCALE) - kep.M[k])

(* C16: for every mean anomaly and every eccentricity in [0, 0.99], the E that
   kepler_E returns with the default tol and maxiter solves Kepler's equation for
   the normalised mean anomaly: |E - e*sin(E) - M'| is below the tolerance (here ten
   grid units of the fixed-point arithmetic). *)
C16_Residual ==
    (kep.pc = "done" /\ kep.tol = DefaultTol /\ kep.maxiter = DefaultMaxiter) =>
        \A k \in 1..Len(kep.E) : KeplerResidual(k) <= 10 * DefaultTol

----------------------------------------------------------------------------
(* orbit.py: gmst_rad, the Greenwich mean sidereal time liveorbit computes for its
   epoch.  A UNIX timestamp is the pair (day, sec): whole days since 1970-01-01 and
   whole seconds of that day.  A Julian Date is kept as twice its value at 00:00
   (JD0 ends in .5) together with the seconds of the day.  Sidereal time is in
   hundredths of a second of time, GMST_deg in thousandths of a degree. *)

\* datetime.utcfromtimestamp(unix_ts): year, month, day of the proleptic Gregorian
\* calendar for a day number
CivilFromDays(day) ==
    LET z   == day + 719468
        era == z \div 146097
        doe == z - era * 146097
        yoe == (doe - (doe \div 1460) + (doe \div 36524) - (doe \div 146096)) \div 365
        doy == doe - (365 * yoe + (yoe \div 4) - (yoe \div 100))
        mp  == (5 * doy + 2) \div 153
        m   == IF mp < 10 THEN mp + 3 ELSE mp - 9
    IN  [Y |-> yoe + era * 400 + (IF m <= 2 THEN 1 ELSE 0),
         M |-> m,
         D |-> doy - ((153 * mp + 2) \div 5) + 1]

\* the months as they are, without the shift of January and February
JulianMonthPlain(c) == c

\* if M <= 2: Y -= 1; M += 12
JulianMonth(c) == IF c.M <= 2 THEN [c EXCEPT !.Y = c.Y - 1, !.M = c.M + 12] ELSE c

\* 2 * JD0, JD0 = floor(365.25*(Y + 4716)) + floor(30.6001*(M + 1)) + D + B - 1524.5
\* with A = floor(Y/100), B = 2 - A + floor(A/4)
JulianDay0x2(c) ==
    LET A == c.Y \div 100
        B == 2 - A + (A \div 4)
    IN  2 * (((1461 * (c.Y + 4716)) \div 4) + ((306001 * (c.M + 1)) \div 10000) + c.D + B)
          - 3049

\* 2 * 2451545.0
J2000x2 == 4903090

\* T = (JD - 2451545.0)/36525.0 in units of 1e-4 century, from the half-days d2
\* between JD0 and J2000.0 and the seconds of the day
GmstT(d2, sec) == RDiv(d2 * 1800 + (sec \div 24), 13149)

\* GMST_sec in hundredths of a second, up to whole turns of 86400 s: the term
\* 876600.0*3600*T is the elapsed time JD - 2451545.0 itself, kept modulo one day;
\* 8640184.812866*T is 118.27768 s per half-day and 0.0027379 s per second
GmstSec(d2, sec) ==
    LET T  == GmstT(d2, sec)
        T2 == RDiv(T * T, 10000)
        T3 == RDiv(T2 * T, 10000)
    IN  6731055
          + (((d2 % 2) * 43200 + sec) % 86400) * 100
          + d2 * 11827 + RDiv(d2 * 768, 1000) + RDiv(sec * 2738, 10000)
          + RDiv(93 * T2, 100000)
          - RDiv(62 * T3, 1000000000)

\* GMST_sec/240.0 without the reduction to one turn
GmstDegNoWrap(cs) == cs \div 24

\* GMST_deg = (GMST_sec/240.0) % 360.0
GmstDeg(cs) == (cs \div 24) % 360000

\* math.radians(GMST_deg), in 1/SCALE rad
GmstRadians(mdeg) == (mdeg \div 180000) * PI + (((mdeg % 180000) * PI) \div 180000)

\* gmst_rad(unix_ts): the values it computes on the way, and the angle it returns
gmst_rad(day, sec) ==
    LET civil == CivilFromDays(day)
        c     == JulianMonth(civil)
        jd0x2 == JulianDay0x2(c)
    IN  [day |-> day, sec |-> sec, civil |-> civil, Y |-> c.Y, M |-> c.M,
         JD0x2 |-> jd0x2,
         T |-> GmstT(jd0x2 - J2000x2, sec),
         gmst |-> GmstRadians(GmstDeg(GmstSec(jd0x2 - J2000x2, sec)))]

\* most steps of the clock in one behaviour
MaxAdvances == 3

\* day numbers the clock starts from: 1900-02-27, 1969-12-30, 1999-12-30,
\* 2000-01-01, 2000-02-27, 2023-12-30, 2024-02-27, 2100-02-27
GmstStartDays == {0 - 25510, 0 - 2, 10955, 10957, 11014, 19721, 19780, 47539}

GmstStartSeconds == {0, 43200, 86399}

\* seconds the clock advances between two calls
GmstSteps == {1, 3600, 40000, 86400}

NoGmst == [day |-> None]

InitGmst ==
    /\ \E d \in GmstStartDays : \E s \in GmstStartSeconds :
          heap = [day |-> d, sec |-> s, n |-> 0, step |-> 0]
    /\ fn = [pc |-> "clock", prev |-> NoGmst, cur |-> NoGmst]
    /\ kep = Idle /\ plot = Idle /\ call = Idle /\ hist = Idle /\ tle = Idle

\* gst = gmst_rad(ts)
GmstCall ==
    /\ fn.pc = "clock"
    /\ fn' = [pc |-> "called", prev |-> fn.cur, cur |-> gmst_rad(heap.day, heap.sec)]
    /\ UNCHANGED <<kep, heap, plot, call, hist, tle>>

\* time passes
GmstAdvance ==
    /\ fn.pc = "called"
    /\ heap.n < MaxAdvances
    /\ \E dt \in GmstSteps :
          heap' = [day |-> heap.day + ((heap.sec + dt) \div 86400),
                   sec |-> (heap.sec + dt) % 86400,
                   n |-> heap.n + 1, step |-> dt]
    /\ fn' = [fn EXCEPT !.pc = "clock"]
    /\ UNCHANGED <<kep, plot, call, hist, tle>>

NextGmst == GmstCall \/ GmstAdvance

SpecGmst == InitGmst /\ [][NextGmst]_vars

\* the angle the Earth turns in dt seconds of a sidereal day of 86164 s, modulo a turn
SiderealAdvance(dt) == RDiv(TWO_PI * dt, 86164) % TWO_PI

\* distance between two angles on the circle
CircleDistance(x, y) == Min(Abs(x - y), TWO_PI - Abs(x - y))

(* C18: gmst_rad returns an angle in [0, 2*pi); from one call to a later one the
   angle has advanced at the sidereal rate modulo a full turn, so over less than a
   sidereal day it has either not decreased, or it has decreased by a full turn
   less the advance: the single wrap from just below 2*pi to 0. *)
C18_GmstRange ==
    fn.pc = "called" =>
        /\ fn.cur.gmst >= 0 /\ fn.cur.gmst < TWO_PI
        /\ fn.prev # NoGmst =>
              /\ CircleDistance((fn.cur.gmst - fn.prev.gmst) % TWO_PI,
                                SiderealAdvance(heap.step)) <= 3
              /\ (heap.step < 86164 /\ fn.cur.gmst < fn.prev.gmst) =>
                    fn.prev.gmst + RDiv(TWO_PI * heap.step, 86164) >= TWO_PI - 3

\* a call after the angle has wrapped
C18_Witness ==
    /\ fn.pc = "called" /\ fn.prev # NoGmst
    /\ heap.step = 40000
    /\ fn.cur.gmst < fn.prev.gmst
    /\ fn.cur.gmst >= 0

(* C19: the Julian Date gmst_rad computes is the standard one: at 00:00 UTC of day
   number d since 1970-01-01 it is 2440587.5 + d, so 2000-01-01 12:00 UTC is
   2451545.0 and T = 0 there; January and February enter the formula as months 13
   and 14 of the year before; and from 00:00 of one calendar day to 00:00 of the
   next it grows by exactly 1, across month ends, year ends, 29 February and the
   missing 29 February of 1900 and 2100. *)
C19_JulianDate ==
    fn.pc = "called" =>
        /\ fn.cur.JD0x2 = 4881175 + 2 * fn.cur.day
        /\ (fn.cur.day = 10957 /\ fn.cur.sec = 43200) =>
              (fn.cur.JD0x2 + 1 = J2000x2 /\ fn.cur.T = 0)
        /\ fn.cur.civil.M <= 2 =>
              (fn.cur.M = fn.cur.civil.M + 12 /\ fn.cur.Y = fn.cur.civil.Y - 1)
        /\ fn.cur.civil.M > 2 => (fn.cur.M = fn.cur.civil.M /\ fn.cur.Y = fn.cur.civil.Y)
        /\ (fn.prev # NoGmst /\ fn.cur.day = fn.prev.day + 1) =>
              fn.cur.JD0x2 = fn.prev.JD0x2 + 2

\* the day after 28 February 2100 is 1 March, one Julian day later
C19_Witness ==
    /\ fn.pc = "called" /\ fn.prev # NoGmst
    /\ fn.prev.civil = [Y |-> 2100, M |-> 2, D |-> 28]
    /\ fn.cur.civil = [Y |-> 2100, M |-> 3, D |-> 1]
    /\ fn.prev.M = 14 /\ fn.prev.Y = 2099
    /\ fn.cur.JD0x2 = fn.prev.JD0x2 + 2

----------------------------------------------------------------------------
(* _2d's add_wrapped_segments, called on longitude and latitude sequences in whole
   degrees.  A state holds the arguments of one call (heap) and, once the call has
   run, the curve items it added to the plot (fn). *)

DatelineJump == 180

\* a split that also takes points exactly 180 degrees apart
WrapsAtLeast(a, b) ==
    IF a = NaN \/ b = NaN THEN FALSE ELSE Abs(a - b) >= DatelineJump

\* abs(lon_arr[i] - lon_arr[i-1]) > 180; a comparison with nan is False
WrapsBetween(a, b) ==
    IF a = NaN \/ b = NaN THEN FALSE ELSE Abs(a - b) > DatelineJump

\* pg.PlotCurveItem(seg_lon, seg_lat, pen=pen)
PlotCurveItem(seg_lon, seg_lat) == [lon |-> seg_lon, lat |-> seg_lat]

\* the for loop from index i on, with the segments closed so far and the open one
RECURSIVE WrappedLoop(_, _, _, _, _, _)
WrappedLoop(lon_arr, lat_arr, i, segments, seg_lon, seg_lat) ==
    IF i > Len(lon_arr)
    THEN Append(segments, PlotCurveItem(seg_lon, seg_lat))
    ELSE IF WrapsBetween(lon_arr[i], lon_arr[i - 1])
         THEN WrappedLoop(lon_arr, lat_arr, i + 1,
                          Append(segments, PlotCurveItem(seg_lon, seg_lat)),
                          <<lon_arr[i]>>, <<lat_arr[i]>>)
         ELSE WrappedLoop(lon_arr, lat_arr, i + 1, segments,
                          Append(seg_lon, lon_arr[i]), Append(seg_lat, lat_arr[i]))

add_wrapped_segments(lon_arr, lat_arr) ==
    IF Len(lon_arr) < 2 THEN <<>>
    ELSE WrappedLoop(lon_arr, lat_arr, 2, <<>>, <<lon_arr[1]>>, <<lat_arr[1]>>)

\* longest track handed to one call
MaxTrack == 3

\* longitudes (deg): pairs 180 apart, pairs more than 180 apart, and nan
TrackLongitudes == {-170, -90, 90, 170, NaN}

\* latitude of the k-th point (deg), northbound or southbound
TrackLatitudes(n, dir) == [k \in 1 .. n |-> dir * 10 * k]

InitWrap ==
    /\ \E n \in 0 .. MaxTrack : \E lon \in [1 .. n -> TrackLongitudes] :
         \E dir \in {-1, 1} :
            heap = [kind |-> "track", lon |-> lon, lat |-> TrackLatitudes(n, dir)]
    /\ fn = [pc |-> "args", op |-> None, ret |-> NoCall]
    /\ kep = Idle /\ plot = Idle /\ call = Idle /\ hist = Idle /\ tle = Idle

CallAddWrappedSegments ==
    /\ fn.pc = "args" /\ heap.kind = "track"
    /\ fn' = [pc |-> "returned", op |-> "add_wrapped_segments",
              ret |-> Returned(add_wrapped_segments(heap.lon, heap.lat))]
    /\ UNCHANGED <<kep, heap, plot, call, hist, tle>>

SpecWrap == InitWrap /\ [][CallAddWrappedSegments]_vars

\* the longitudes, or latitudes, of the segments one after the other
RECURSIVE Joined(_, _)
Joined(segs, field) ==
    IF segs = <<>> THEN <<>>
    ELSE IF field = "lon" THEN Head(segs).lon \o Joined(Tail(segs), field)
         ELSE Head(segs).lat \o Joined(Tail(segs), field)

\* the input index at which segment k starts
RECURSIVE SegmentStart(_, _)
SegmentStart(segs, k) ==
    IF k = 1 THEN 1 ELSE SegmentStart(segs, k - 1) + Len(segs[k - 1].lon)

(* C28: for a longitude/latitude sequence of length >= 2 the segments of
   add_wrapped_segments are non-empty and, one after the other, give back the input
   point for point; a segment starts at index i > 1 exactly when lon[i] and lon[i-1]
   are more than 180 degrees apart, so no segment holds two consecutive points that
   far apart; for a sequence of length < 2 there is no segment. *)
C28_DatelineSplit ==
    (fn.pc = "returned" /\ fn.op = "add_wrapped_segments") =>
        LET lon  == heap.lon
            lat  == heap.lat
            segs == fn.ret.val
            far(a, b) == a # NaN /\ b # NaN /\ (a - b > 180 \/ b - a > 180)
            starts == {SegmentStart(segs, k) : k \in 1 .. Len(segs)}
        IN  IF Len(lon) < 2 THEN segs = <<>>
            ELSE /\ \A k \in 1 .. Len(segs) :
                       Len(segs[k].lon) >= 1 /\ Len(segs[k].lat) = Len(segs[k].lon)
                 /\ Joined(segs, "lon") = lon
                 /\ Joined(segs, "lat") = lat
                 /\ starts = {1} \cup {i \in 2 .. Len(lon) : far(lon[i], lon[i - 1])}
                 /\ \A k \in 1 .. Len(segs) : \A j \in 2 .. Len(segs[k].lon) :
                       ~far(segs[k].lon[j], segs[k].lon[j - 1])

\* a track that crosses the dateline once and has two points exactly 180 apart
C28_Witness ==
    /\ fn.pc = "returned" /\ fn.op = "add_wrapped_segments"
    /\ heap.lon = <<-90, 90, -170>>
    /\ Len(fn.ret.val) = 2
    /\ fn.ret.val[1].lon = <<-90, 90>>
    /\ fn.ret.val[2] = PlotCurveItem(<<-170>>, <<heap.lat[3]>>)

====
